---- MODULE Spec2Model ----
(***************************************************************************)
(* The bytecode container of mlbf (program.c): bf_program_create,          *)
(* bf_program_grow, bf_program_append, bf_program_substitute and           *)
(* bf_program_match_sequence.                                              *)
(*                                                                         *)
(* The buffer program->ir is kept sparsely: `ir` is a function on the      *)
(* slots that were written one by one, and every other populated slot      *)
(* (index < size) holds Fill, the instruction the front end loaded in      *)
(* bulk.  IrAt reads a slot.  This keeps the sizes of the source           *)
(* (1024 slots per batch, 65536 slots at most) unscaled.                   *)
(***************************************************************************)
EXTENDS Integers, Sequences, FiniteSets

---------------------------------------------------------------------------
(* Bounds of the model. *)

\* appends explored after the load of a program
MaxAppends == 2
\* longest program an optimizer pass is run on
MaxLen == 5
\* longest rule list handed to the matcher
MaxRules == 2
\* longest replacement list handed to substitute
MaxRepl == 2

---------------------------------------------------------------------------
(* Constants and data of the source. *)

INSTRUCTION_ALLOC_COUNT == 1024
BF_MAX_PROGRAM_SIZE == 65536

BF_INS_NOP == "NOP"

Opcodes ==
    {"NOP", "IN", "OUT", "INC_V", "DEC_V", "ADD_V", "SUB_V", "INC_P", "DEC_P",
     "ADD_P", "SUB_P", "BRANCH_Z", "BRANCH_NZ", "JMP", "HALT", "CLEAR", "COPY",
     "MUL"}

\* struct bf_instruction { opcode, argument, offset }
Ins(op, arg) == [opcode |-> op, argument |-> arg, offset |-> 0]

BF_PATTERN_STRICT == "STRICT"

\* struct bf_pattern_rule { instruction, flags }
Rule(instr, fl) == [instruction |-> instr, flags |-> fl]

bf_utils_check_flag(flags, flag) == flag \in flags

\* The instruction the front end loads in bulk; it is none of the
\* instructions appended or substituted one by one below.
Fill == Ins("INC_P", 0)

NOP == Ins(BF_INS_NOP, 0)

\* instructions appended and substituted one by one in Spec
AppendInstrs == {Ins("ADD_V", 1), Ins("OUT", 0)}
SubInstrs == {NOP, Ins("CLEAR", 0)}

\* instructions of the programs an optimizer pass is run on in SpecPass
PassInstrs == {NOP, Ins("ADD_V", 1), Ins("ADD_V", 3), Ins("JMP", 5)}
PassRules ==
    {Rule(Ins("ADD_V", 3), {BF_PATTERN_STRICT}), Rule(Ins("ADD_V", 3), {}),
     Rule(Ins("JMP", 0), {})}
PassRepl == {NOP, Ins("ADD_V", 3)}

ListsOf(S, n) == [1..n -> S]

---------------------------------------------------------------------------
(* C integer conversions.  An int that meets a size_t is converted to       *)
(* size_t: a negative x becomes 2^64 + x.  <<1, x>> stands for 2^64 + x     *)
(* (x < 0) and <<0, x>> for x (x >= 0); the order on the pairs is the       *)
(* order on the values as long as |x| < 2^63.                               *)

AsSizeT(x) == IF x < 0 THEN <<1, x>> ELSE <<0, x>>

SizeTLess(a, b) == a[1] < b[1] \/ (a[1] = b[1] /\ a[2] < b[2])

---------------------------------------------------------------------------
(* The program record and its buffer. *)

VARIABLES
    program,    \* struct bf_program: [ir, size, capacity]
    last,       \* the call that has just returned, or NoCall
    ub,         \* TRUE once a call wrote outside the allocated buffer
    loaded,     \* number of instructions in the program at the start
    appended    \* the instructions appended one by one since, in order

vars == <<program, last, ub, loaded, appended>>

IrAt(p, k) == IF k \in DOMAIN p.ir THEN p.ir[k] ELSE Fill

Store(irf, k, v) == [j \in DOMAIN irf \cup {k} |-> IF j = k THEN v ELSE irf[j]]

NoCall ==
    [op |-> "none", ret |-> FALSE, pos |-> 0, n |-> 0, list |-> <<>>,
     written |-> {}, reads |-> {}, ruleReads |-> {}, matched |-> FALSE,
     grew |-> FALSE]

\* the program bf_program_create returns when both calloc calls succeed
bf_program_create ==
    [ir |-> <<>>, size |-> 0, capacity |-> INSTRUCTION_ALLOC_COUNT]

(* bf_program_grow *)

\* the ceiling test taken one slot too late
CapacityExceeded_late(capacity) ==
    /\ capacity + INSTRUCTION_ALLOC_COUNT > BF_MAX_PROGRAM_SIZE
    /\ ~(capacity <= BF_MAX_PROGRAM_SIZE)

CapacityExceeded(capacity) ==
    /\ capacity + INSTRUCTION_ALLOC_COUNT > BF_MAX_PROGRAM_SIZE
    /\ ~(capacity < BF_MAX_PROGRAM_SIZE)

new_capacity(capacity) ==
    IF capacity + INSTRUCTION_ALLOC_COUNT > BF_MAX_PROGRAM_SIZE
    THEN BF_MAX_PROGRAM_SIZE
    ELSE capacity + INSTRUCTION_ALLOC_COUNT

\* the capacity raised before realloc's result is looked at
bf_program_grow_early(p, reallocOk) ==
    IF CapacityExceeded(p.capacity)
    THEN [ok |-> FALSE, program |-> p]
    ELSE [ok |-> reallocOk, program |-> [p EXCEPT !.capacity = new_capacity(@)]]

\* reallocOk: whether realloc returns memory
bf_program_grow(p, reallocOk) ==
    IF CapacityExceeded(p.capacity) \/ ~reallocOk
    THEN [ok |-> FALSE, program |-> p]
    ELSE [ok |-> TRUE, program |-> [p EXCEPT !.capacity = new_capacity(@)]]

(* bf_program_append *)

NeedsGrow(p) == p.size >= p.capacity

\* the grown buffer not carrying the old contents over
bf_program_append_lost(p, instruction, reallocOk) ==
    LET g == IF p.size >= p.capacity
             THEN bf_program_grow([p EXCEPT !.ir = <<>>], reallocOk)
             ELSE [ok |-> TRUE, program |-> p]
    IN  IF ~g.ok
        THEN [ok |-> FALSE, program |-> p, written |-> {}]
        ELSE [ok |-> TRUE,
              program |-> [g.program EXCEPT !.ir = Store(@, p.size, instruction),
                                            !.size = @ + 1],
              written |-> {p.size}]

bf_program_append(p, instruction, reallocOk) ==
    LET g == IF NeedsGrow(p) THEN bf_program_grow(p, reallocOk)
                             ELSE [ok |-> TRUE, program |-> p]
    IN  IF ~g.ok
        THEN [ok |-> FALSE, program |-> p, written |-> {}]
        ELSE [ok |-> TRUE,
              program |-> [g.program EXCEPT !.ir = Store(@, p.size, instruction),
                                            !.size = @ + 1],
              written |-> {p.size}]

(* bf_program_substitute *)

\* > in place of >=
OutOfRange_gt(p, pos, size) == SizeTLess(AsSizeT(p.size), AsSizeT(pos + size))

\* pos + size >= program->size, in size_t
OutOfRange(p, pos, size) == ~SizeTLess(AsSizeT(pos + size), AsSizeT(p.size))

SubstituteIndices(pos, size) == {pos + i : i \in 0..(size - 1)}

\* ir[0] copied to every slot of the span
bf_program_substitute_first(p, ir, pos, size) ==
    IF OutOfRange(p, pos, size)
    THEN [ok |-> FALSE, program |-> p, written |-> {}]
    ELSE LET W == SubstituteIndices(pos, size)
             inside == {k \in W : 0 <= k /\ k < p.capacity}
         IN  [ok |-> TRUE,
              program |-> [p EXCEPT !.ir = [k \in DOMAIN p.ir \cup inside |->
                                    IF k \in inside THEN ir[1] ELSE p.ir[k]]],
              written |-> W]

bf_program_substitute(p, ir, pos, size) ==
    IF OutOfRange(p, pos, size)
    THEN [ok |-> FALSE, program |-> p, written |-> {}]
    ELSE LET W == SubstituteIndices(pos, size)
             inside == {k \in W : 0 <= k /\ k < p.capacity}
         IN  [ok |-> TRUE,
              program |-> [p EXCEPT !.ir = [k \in DOMAIN p.ir \cup inside |->
                                    IF k \in inside THEN ir[k - pos + 1] ELSE p.ir[k]]],
              written |-> W]

(* bf_program_match_sequence *)

MatchRejected(p, pos, size) ==
    ~SizeTLess(AsSizeT(pos + size), AsSizeT(p.size)) \/ size <= 0

\* <= in place of < in the scan's bound
ScanContinues_le(p, pos, i, mut_size) ==
    i < mut_size /\ ~SizeTLess(AsSizeT(p.size), AsSizeT(pos + mut_size))

\* the scan's bound left out
ScanContinues_unbounded(p, pos, i, mut_size) == i < mut_size

ScanContinues(p, pos, i, mut_size) ==
    i < mut_size /\ SizeTLess(AsSizeT(pos + mut_size), AsSizeT(p.size))

OpcodeDiffers(instr, rule) == instr.opcode # rule.instruction.opcode

\* the arguments compared whatever the flags
ArgumentRejected_always(instr, rule) ==
    instr.argument # rule.instruction.argument

ArgumentRejected(instr, rule) ==
    LET is_strict == bf_utils_check_flag(rule.flags, BF_PATTERN_STRICT)
    IN  is_strict /\ instr.argument # rule.instruction.argument

\* the final test of real_iters left out
ScanResult_unchecked(real_iters, size, mut_size) == mut_size

ScanResult(real_iters, size, mut_size) ==
    IF real_iters = size THEN mut_size ELSE 0

RECURSIVE MatchScan(_, _, _, _, _, _, _, _, _)
MatchScan(p, rules, pos, size, i, mut_size, real_iters, reads, ruleReads) ==
    IF ~ScanContinues(p, pos, i, mut_size)
    THEN [ret |-> ScanResult(real_iters, size, mut_size),
          reads |-> reads, ruleReads |-> ruleReads]
    ELSE LET instr == IrAt(p, pos + i)
             rule == rules[real_iters + 1]
             r2 == reads \cup {pos + i}
             rr2 == ruleReads \cup {real_iters}
         IN  IF instr.opcode = BF_INS_NOP
             THEN MatchScan(p, rules, pos, size, i + 1, mut_size + 1, real_iters,
                            r2, rr2)
             ELSE IF OpcodeDiffers(instr, rule)
             THEN [ret |-> 0, reads |-> r2, ruleReads |-> rr2]
             ELSE IF ArgumentRejected(instr, rule)
             THEN [ret |-> 0, reads |-> r2, ruleReads |-> rr2]
             ELSE MatchScan(p, rules, pos, size, i + 1, mut_size, real_iters + 1,
                            r2, rr2)

bf_program_match_sequence(p, rules, pos, size) ==
    IF MatchRejected(p, pos, size)
    THEN [ret |-> 0, reads |-> {}, ruleReads |-> {}]
    ELSE MatchScan(p, rules, pos, size, 0, size, 0, {}, {})

---------------------------------------------------------------------------
(* The calls.  A call is made when the previous one has returned and its    *)
(* result has been taken (Return); it runs to completion in one step.       *)

Idle == last.op = "none" /\ ~ub

OutsideBuffer(p, written) == \E k \in written : k < 0 \/ k >= p.capacity

CallGrow ==
    /\ Idle
    /\ \E reallocOk \in BOOLEAN :
         LET r == bf_program_grow(program, reallocOk)
         IN  /\ program' = r.program
             /\ last' = [NoCall EXCEPT !.op = "grow", !.ret = r.ok]
    /\ UNCHANGED <<ub, loaded, appended>>

CallAppend ==
    /\ Idle
    /\ Len(appended) < MaxAppends
    /\ \E instruction \in AppendInstrs, reallocOk \in BOOLEAN :
         LET r == bf_program_append(program, instruction, reallocOk)
         IN  /\ program' = r.program
             /\ last' = [NoCall EXCEPT !.op = "append", !.ret = r.ok,
                                       !.list = <<instruction>>,
                                       !.written = r.written,
                                       !.grew = NeedsGrow(program)]
             /\ ub' = OutsideBuffer(r.program, r.written)
             /\ appended' = IF r.ok THEN Append(appended, instruction) ELSE appended
    /\ UNCHANGED loaded

DoSubstitute(ir, pos, size, matched) ==
    LET r == bf_program_substitute(program, ir, pos, size)
    IN  /\ program' = r.program
        /\ last' = [NoCall EXCEPT !.op = "substitute", !.ret = r.ok, !.pos = pos,
                                  !.n = size, !.list = ir, !.written = r.written,
                                  !.matched = matched]
        /\ ub' = OutsideBuffer(program, r.written)
        /\ UNCHANGED <<loaded, appended>>

\* substitute at a position pos >= 0
CallSubstitute ==
    /\ Idle
    /\ \E ir \in ListsOf(SubInstrs, 1), pos \in 0..1, size \in 0..1 :
         DoSubstitute(ir, pos, size, FALSE)

\* substitute with any value of the int pos; a write outside the buffer is
\* undefined behaviour, and nothing is modelled after it (ub)
CallSubstituteAt ==
    /\ Idle
    /\ \E ir \in ListsOf(PassRepl, MaxRepl), pos \in (0 - MaxRepl)..MaxLen,
          size \in 0..MaxRepl :
         DoSubstitute(ir, pos, size, FALSE)

\* the matcher at a position pos >= 0 (a negative pos makes it read before
\* the buffer)
CallMatch ==
    /\ Idle
    /\ \E size \in 0..MaxRules :
       \E rules \in ListsOf(PassRules, size), pos \in 0..MaxLen :
         LET r == bf_program_match_sequence(program, rules, pos, size)
         IN  last' = [NoCall EXCEPT !.op = "match", !.ret = r.ret, !.pos = pos,
                                    !.n = size, !.list = rules, !.reads = r.reads,
                                    !.ruleReads = r.ruleReads]
    /\ UNCHANGED <<program, ub, loaded, appended>>

\* the optimizer driver: a nonzero span is handed to substitute as it is,
\* with a replacement padded with NOPs
CallSubstituteMatched ==
    /\ ~ub
    /\ last.op = "match"
    /\ last.ret # 0
    /\ DoSubstitute([i \in 1..last.ret |-> NOP], last.pos, last.ret, TRUE)

Return ==
    /\ ~ub
    /\ last.op # "none"
    /\ last' = NoCall
    /\ UNCHANGED <<program, ub, loaded, appended>>

---------------------------------------------------------------------------
(* Spec: the container from bf_program_create on.  The front end has        *)
(* appended `loaded` copies of Fill to the created program; the capacity    *)
(* is the one these appends leave.                                          *)

LoadedSizes == {0, INSTRUCTION_ALLOC_COUNT - 1, BF_MAX_PROGRAM_SIZE - 1}

RECURSIVE CapacityFor(_, _)
CapacityFor(p, n) ==
    IF n <= p.capacity THEN p.capacity
    ELSE CapacityFor(bf_program_grow(p, TRUE).program, n)

Load(n) ==
    [bf_program_create EXCEPT !.size = n,
                              !.capacity = CapacityFor(bf_program_create, n)]

Init ==
    /\ \E n \in LoadedSizes : program = Load(n) /\ loaded = n
    /\ last = NoCall
    /\ ub = FALSE
    /\ appended = <<>>

Next == CallGrow \/ CallAppend \/ CallSubstitute \/ Return

Spec == Init /\ [][Next]_vars

(* SpecLoad: the front end alone, which only appends (and may grow). *)

NextLoad == CallGrow \/ CallAppend \/ Return

SpecLoad == Init /\ [][NextLoad]_vars

(* SpecPass: an optimizer pass over a program the front end has appended,   *)
(* instruction by instruction.                                              *)

InitPass ==
    /\ \E n \in 0..MaxLen : \E b \in [0..(n - 1) -> PassInstrs] :
         /\ program = [bf_program_create EXCEPT !.ir = b, !.size = n]
         /\ loaded = n
    /\ appended = <<>>
    /\ last = NoCall
    /\ ub = FALSE

NextPass == CallMatch \/ CallSubstituteAt \/ CallSubstituteMatched \/ Return

SpecPass == InitPass /\ [][NextPass]_vars

---------------------------------------------------------------------------
(* Properties. *)

Populated(p) == 0..(p.size - 1)

Span(pos, n) == pos..(pos + n - 1)

LooseAddV == Rule(Ins("ADD_V", 3), {})
StrictAddV == Rule(Ins("ADD_V", 3), {BF_PATTERN_STRICT})
LooseJmp == Rule(Ins("JMP", 0), {})

\* C1: in every state reached from bf_program_create by grow, append and
\* substitute calls, successful or failed, size <= capacity <= 65536.
C1_SizeWithinCapacity ==
    /\ program.size <= program.capacity
    /\ program.capacity <= BF_MAX_PROGRAM_SIZE

\* an append has filled the program to the ceiling
C1_Witness ==
    /\ last.op = "append"
    /\ last.ret
    /\ program.size = BF_MAX_PROGRAM_SIZE
    /\ program.capacity = BF_MAX_PROGRAM_SIZE

\* the k-th instruction appended since bf_program_create, k from 0
AppendedAt(k) == IF k < loaded THEN Fill ELSE appended[k - loaded + 1]

C2_History ==
    /\ program.size = loaded + Len(appended)
    /\ \A k \in Populated(program) : IrAt(program, k) = AppendedAt(k)

C2_Step ==
    (last'.op = "append" /\ last'.ret) =>
        /\ program'.size = program.size + 1
        /\ IrAt(program', program'.size - 1) = last'.list[1]
        /\ \A k \in Populated(program) : IrAt(program', k) = IrAt(program, k)

\* C2: after N successful appends to a created program the size is N and
\* slot k holds the k-th appended instruction, for every k < N; each
\* successful append raises the size by one, puts the instruction in slot
\* size-1 and leaves the earlier slots as they were, also when it grows.
C2_AppendKeepsHistory == []C2_History /\ [][C2_Step]_vars

\* an append that had to grow the buffer, after an append that had not
C2_Witness ==
    /\ last.op = "append"
    /\ last.ret
    /\ last.grew
    /\ Len(appended) = 2
    /\ program.size = INSTRUCTION_ALLOC_COUNT + 1

C3_Step ==
    /\ (last'.op = "append" /\ program.size = BF_MAX_PROGRAM_SIZE) => ~last'.ret
    /\ (last'.op = "grow" /\ program.capacity = BF_MAX_PROGRAM_SIZE) => ~last'.ret
    /\ (last'.op \in {"append", "grow"} /\ ~last'.ret) =>
          /\ program' = program
          /\ last'.written = {}
          /\ appended' = appended

\* C3: an append at size 65536 fails, a grow at capacity 65536 fails, a
\* failed append or grow leaves size, capacity and every slot as they were
\* and stores nothing, and the size never exceeds 65536.
C3_CeilingRefuses ==
    [](program.size <= BF_MAX_PROGRAM_SIZE) /\ [][C3_Step]_vars

\* an append refused on a full program
C3_Witness ==
    /\ last.op = "append"
    /\ ~last.ret
    /\ program.size = BF_MAX_PROGRAM_SIZE

\* C4: a substitute with pos + size >= length fails and leaves every slot,
\* the size and the capacity as they were.
C4_OutOfRangeRefused ==
    [][(last'.op = "substitute" /\ last'.pos + last'.n >= program.size) =>
          /\ ~last'.ret
          /\ program' = program
          /\ last'.written = {}]_vars

\* a substitute whose span ends exactly at the end of the program
C4_Witness ==
    /\ last.op = "substitute"
    /\ last.n > 0
    /\ last.pos + last.n = program.size
    /\ ~last.ret

\* C5: a substitute with pos >= 0 and pos + size < length succeeds, slot
\* pos+i then holds the i-th replacement instruction, every other slot, the
\* size and the capacity are as they were.
C5_SubstituteWritesSpan ==
    [][(last'.op = "substitute" /\ last'.pos >= 0
            /\ last'.pos + last'.n < program.size) =>
          /\ last'.ret
          /\ \A i \in 0..(last'.n - 1) :
                IrAt(program', last'.pos + i) = last'.list[i + 1]
          /\ \A k \in Populated(program) \ Span(last'.pos, last'.n) :
                IrAt(program', k) = IrAt(program, k)
          /\ last'.written = Span(last'.pos, last'.n)
          /\ program'.size = program.size
          /\ program'.capacity = program.capacity]_vars

\* a substitute of two different instructions into the middle of a program
C5_Witness ==
    /\ last.op = "substitute"
    /\ last.ret
    /\ last.pos = 1
    /\ last.n = 2
    /\ last.list[1] # last.list[2]
    /\ IrAt(program, 1) = last.list[1]
    /\ IrAt(program, 2) = last.list[2]

\* C6: every slot a substitute call writes is a populated one, for every
\* value of the int pos, the negative ones included.
C6_WritesPopulatedOnly ==
    last.op = "substitute" => \A i \in last.written : 0 <= i /\ i < program.size

IsC7Program(p) ==
    /\ p.size >= 4
    /\ IrAt(p, 0) = Ins("ADD_V", 1)
    /\ IrAt(p, 1) = NOP
    /\ IrAt(p, 2) = NOP
    /\ IrAt(p, 3) = Ins("JMP", 5)

IsC7Call ==
    /\ last.op = "match"
    /\ last.pos = 0
    /\ last.n = 2
    /\ last.list = <<LooseAddV, LooseJmp>>

\* C7 as claimed: on the program [ADD_V(1), NOP, NOP, JMP(5)] of length 4 the
\* matcher at pos 0 with the loose rules [ADD_V, JMP] returns 4.
C7_Original ==
    (IsC7Call /\ IsC7Program(program) /\ program.size = 4) => last.ret = 4

\* C7 as amended: on a program that starts with ADD_V(1), NOP, NOP, JMP(5)
\* the matcher at pos 0 with the loose rules [ADD_V, JMP] returns 4 when at
\* least one more instruction follows, and 0 when the length is 4.
C7_SkipsNops ==
    (IsC7Call /\ IsC7Program(program)) =>
        last.ret = IF program.size > 4 THEN 4 ELSE 0

C7_Witness ==
    /\ IsC7Call
    /\ IsC7Program(program)
    /\ program.size = 5
    /\ last.ret = 4

Reals(p, S) == {k \in S : IrAt(p, k).opcode # BF_INS_NOP}

\* the k-th smallest member of S, k from 0
Kth(S, k) == CHOOSE x \in S : Cardinality({y \in S : y < x}) = k

Satisfies(instr, rule) ==
    /\ instr.opcode = rule.instruction.opcode
    /\ BF_PATTERN_STRICT \in rule.flags =>
          instr.argument = rule.instruction.argument

\* C8: a nonzero result r means that the slots [pos, pos+r) hold exactly
\* `size` instructions that are not NOP, the k-th of them satisfying rule k,
\* and NOPs otherwise, r being size plus the number of these NOPs; fewer
\* real instructions than rules from pos to the end give 0.
C8_MatchIsComplete ==
    last.op = "match" =>
        LET S == Span(last.pos, last.ret)
            R == Reals(program, S)
        IN  /\ last.ret # 0 =>
                /\ S \subseteq Populated(program)
                /\ Cardinality(R) = last.n
                /\ \A k \in 0..(last.n - 1) :
                      Satisfies(IrAt(program, Kth(R, k)), last.list[k + 1])
                /\ last.ret = last.n + Cardinality(S \ R)
            /\ Cardinality(Reals(program, last.pos..(program.size - 1))) < last.n
                  => last.ret = 0

\* two rules matched across skipped NOPs
C8_Witness ==
    /\ last.op = "match"
    /\ last.n = 2
    /\ last.ret > 2

\* one real instruction, then only NOPs, against two rules
C8_TrailingNops ==
    /\ last.op = "match"
    /\ last.n = 2
    /\ last.pos = 0
    /\ program.size = 4
    /\ Reals(program, Populated(program)) = {0}
    /\ Satisfies(IrAt(program, 0), last.list[1])
    /\ last.ret = 0

IsC9Call ==
    /\ last.op = "match"
    /\ last.n = 1
    /\ last.list[1] \in {StrictAddV, LooseAddV}
    /\ last.pos + 1 < program.size

C9_Operand ==
    LET instr == IrAt(program, last.pos)
    IN  instr.opcode = "ADD_V" =>
            IF last.list[1] = StrictAddV
            THEN (last.ret # 0) <=> (instr.argument = 3)
            ELSE last.ret # 0

\* C9 as claimed: with an ADD_V of argument k at pos and an instruction after
\* it, the rule {ADD_V(3), STRICT} matches iff k = 3 and the rule
\* {ADD_V(3), not STRICT} matches for every k; an instruction with another
\* opcode at pos gives 0.
C9_Original ==
    IsC9Call =>
        /\ C9_Operand
        /\ IrAt(program, last.pos).opcode # "ADD_V" => last.ret = 0

\* C9 as amended: the same, but only an instruction at pos that is not a NOP
\* and has another opcode gives 0 (a NOP at pos is skipped).
C9_StrictAndLoose ==
    IsC9Call =>
        /\ C9_Operand
        /\ IrAt(program, last.pos).opcode \notin {"ADD_V", BF_INS_NOP} =>
              last.ret = 0

\* the strict rule refusing an ADD_V with another argument
C9_Witness ==
    /\ IsC9Call
    /\ last.list[1] = StrictAddV
    /\ IrAt(program, last.pos) = Ins("ADD_V", 1)
    /\ last.ret = 0

C10_State ==
    /\ last.op = "match" =>
          /\ last.reads \subseteq last.pos..(program.size - 1)
          /\ last.ruleReads \subseteq 0..(last.n - 1)
          /\ last.ret # 0 =>
                /\ last.pos + last.ret < program.size
                /\ ~OutOfRange(program, last.pos, last.ret)
    /\ (last.op = "substitute" /\ last.matched) => last.ret

\* C10: a nonzero span r returned for pos >= 0 has pos + r < length, so the
\* substitute of that span on the same program succeeds; the matcher reads
\* only slots in [pos, length) and rules in [0, size) and leaves the program
\* as it was.
C10_MatchThenSubstitute ==
    []C10_State /\ [][last'.op = "match" => program' = program]_vars

\* the driver's substitute of a span that holds skipped NOPs
C10_Witness ==
    /\ last.op = "substitute"
    /\ last.matched
    /\ last.ret
    /\ last.n > MaxRules

====
